---- MODULE Spec2Model ----
(***************************************************************************)
(* Model of src/main.py: a Streamlit chat page.  Every session of the page *)
(* re-executes main() from the top on each run; the only state that         *)
(* survives a run is st.session_state.  A run is modelled line by line:    *)
(* pc[s] is the line of main() that session s executes next.               *)
(***************************************************************************)
EXTENDS Integers, Sequences, FiniteSets, TLC

(* ---------------- bounds ---------------- *)
NumSessions == 2
MaxRuns == 2

Sessions == 1..NumSessions

(* ---------------- values ---------------- *)
\* Optional[str]: Python's None and a str are different values.
None == [tag |-> "None"]
Some(t) == [tag |-> "Some", val |-> t]
\* a local of main() that the current run has not assigned yet
Unset == [tag |-> "Unset"]

\* Python truthiness of an Optional[str]: None and "" are falsy.
Truthy(v) == v # None /\ v # Unset /\ v.val # ""

DEFAULT_MODEL == "gpt-4o-mini"
SYSTEM_PROMPT ==
  [role |-> "system",
   content |-> "You are a helpful and friendly AI assistant. Provide clear, concise, and accurate responses."]

\* what os.getenv("OPENAI_API_KEY") can return
ApiKeys == {None, Some(""), Some("sk-key")}
\* what st.chat_input can return
UserInputs == {None, Some(""), Some("Hello"), Some("Bye")}
\* what response.choices[0].message.content can be
ReplyContents == {None, Some(""), Some("Hi!"), Some("Ok")}

Message(r, c) == [role |-> r, content |-> c]

\* elements a run puts on the page
ChatBubble(r, c) == [kind |-> "chat_message", role |-> r, content |-> c]
ErrorBox(m) == [kind |-> "error", role |-> "", content |-> m]
InfoBox(m) == [kind |-> "info", role |-> "", content |-> m]

VARIABLES
  pc,             \* pc[s]: next line of main() in session s
  session_state,  \* session_state[s]: the keys of st.session_state, "messages" holds a list reference
  lists,          \* the list objects created so far; lists[id] is the content of list id
  api_key,        \* local of main()
  user_text,      \* local of main()
  assistant_response_text, \* local of main()
  idx,            \* position of the for loop of display_chat_history
  page,           \* page[s]: the elements the current run has written, in order
  inflight,       \* inflight[s]: completion requests sent and not yet answered
  call_result,    \* which arm of the try of get_ai_response the current run left by
  ncalls,         \* completion calls issued by the session so far
  runs,           \* script runs started so far, all sessions
  before,         \* conversation of the session when the current run started, and once the run has
                  \* passed line 115, as line 115 left it
  trace,          \* the steps of the current interaction, in the order they ran
  log             \* per session: its non-empty submissions and what became of them

vars == <<pc, session_state, lists, api_key, user_text, assistant_response_text,
          idx, page, inflight, call_result, ncalls, runs, before, trace, log>>

NoKeys == [k \in {} |-> 0]
WithMessages(id) == [k \in {"messages"} |-> id]

\* st.session_state.messages of session s, the empty sequence when the key is not set
Conv(s) == IF "messages" \in DOMAIN session_state[s]
           THEN lists[session_state[s]["messages"]]
           ELSE <<>>

Init ==
  /\ pc = [s \in Sessions |-> "idle"]
  /\ session_state = [s \in Sessions |-> NoKeys]
  /\ lists = <<>>
  /\ api_key = [s \in Sessions |-> Unset]
  /\ user_text = [s \in Sessions |-> Unset]
  /\ assistant_response_text = [s \in Sessions |-> Unset]
  /\ idx = [s \in Sessions |-> 0]
  /\ page = [s \in Sessions |-> <<>>]
  /\ inflight = [s \in Sessions |-> {}]
  /\ call_result = [s \in Sessions |-> "none"]
  /\ ncalls = [s \in Sessions |-> 0]
  /\ runs = 0
  /\ before = [s \in Sessions |-> <<>>]
  /\ trace = [s \in Sessions |-> <<>>]
  /\ log = [s \in Sessions |-> <<>>]

\* the framework starts a run of the script for session s: main() from the top
Rerun(s) ==
  /\ pc[s] \in {"idle", "stopped", "done"}
  /\ runs < MaxRuns
  /\ runs' = runs + 1
  /\ pc' = [pc EXCEPT ![s] = "L101"]
  /\ api_key' = [api_key EXCEPT ![s] = Unset]
  /\ user_text' = [user_text EXCEPT ![s] = Unset]
  /\ assistant_response_text' = [assistant_response_text EXCEPT ![s] = Unset]
  /\ idx' = [idx EXCEPT ![s] = 0]
  /\ page' = [page EXCEPT ![s] = <<>>]
  /\ call_result' = [call_result EXCEPT ![s] = "none"]
  /\ before' = [before EXCEPT ![s] = Conv(s)]
  /\ trace' = [trace EXCEPT ![s] = <<>>]
  /\ UNCHANGED <<session_state, lists, inflight, ncalls, log>>

\* main, lines 101-105, with the fall-through of a mutant that forgets st.stop()
main_env_nostop(s) ==
  /\ pc[s] = "L101"
  /\ \E k \in ApiKeys :
       /\ api_key' = [api_key EXCEPT ![s] = k]
       /\ IF ~Truthy(k)
          THEN page' = [page EXCEPT ![s] = page[s] \o
                         <<ErrorBox("API key not found"), InfoBox("Create a .env file")>>]
          ELSE page' = page
  /\ pc' = [pc EXCEPT ![s] = "L108"]
  /\ UNCHANGED <<session_state, lists, user_text, assistant_response_text, idx,
                 inflight, call_result, ncalls, runs, before, trace, log>>

\* main, lines 101-105: read the key; without one, error, info and st.stop()
main_env(s) ==
  /\ pc[s] = "L101"
  /\ \E k \in ApiKeys :
       /\ api_key' = [api_key EXCEPT ![s] = k]
       /\ IF ~Truthy(k)
          THEN /\ page' = [page EXCEPT ![s] = page[s] \o
                            <<ErrorBox("API key not found"), InfoBox("Create a .env file")>>]
               /\ pc' = [pc EXCEPT ![s] = "stopped"]
          ELSE /\ page' = page
               /\ pc' = [pc EXCEPT ![s] = "L108"]
  /\ UNCHANGED <<session_state, lists, user_text, assistant_response_text, idx,
                 inflight, call_result, ncalls, runs, before, trace, log>>

\* main, lines 108-112: OpenAI(api_key=...) returns a client or raises
main_client(s) ==
  /\ pc[s] = "L108"
  /\ \E raised \in BOOLEAN :
       IF raised
       THEN /\ page' = [page EXCEPT ![s] = Append(page[s],
                          ErrorBox("Failed to initialize OpenAI client"))]
            /\ pc' = [pc EXCEPT ![s] = "stopped"]
       ELSE /\ page' = page
            /\ pc' = [pc EXCEPT ![s] = "L115"]
  /\ UNCHANGED <<session_state, lists, api_key, user_text, assistant_response_text, idx,
                 inflight, call_result, ncalls, runs, before, trace, log>>

\* initialize_session_state, with the list of a mutant that keeps one
\* module-level default list and hands it to every session
initialize_session_state_shared(s) ==
  /\ pc[s] = "L115"
  /\ IF "messages" \notin DOMAIN session_state[s]
     THEN IF Len(lists) = 0
          THEN /\ lists' = Append(lists, <<SYSTEM_PROMPT>>)
               /\ session_state' = [session_state EXCEPT ![s] = WithMessages(1)]
          ELSE /\ lists' = lists
               /\ session_state' = [session_state EXCEPT ![s] = WithMessages(1)]
     ELSE UNCHANGED <<lists, session_state>>
  /\ pc' = [pc EXCEPT ![s] = "L118"]
  /\ idx' = [idx EXCEPT ![s] = 1]
  /\ before' = [before EXCEPT ![s] = Conv(s)']
  /\ UNCHANGED <<api_key, user_text, assistant_response_text, page,
                 inflight, call_result, ncalls, runs, trace, log>>

\* initialize_session_state, without the "not in" test: a mutant that
\* starts the conversation afresh on every run
initialize_session_state_reset(s) ==
  /\ pc[s] = "L115"
  /\ lists' = Append(lists, <<SYSTEM_PROMPT>>)
  /\ session_state' = [session_state EXCEPT ![s] = WithMessages(Len(lists) + 1)]
  /\ pc' = [pc EXCEPT ![s] = "L118"]
  /\ idx' = [idx EXCEPT ![s] = 1]
  /\ before' = [before EXCEPT ![s] = Conv(s)']
  /\ UNCHANGED <<api_key, user_text, assistant_response_text, page,
                 inflight, call_result, ncalls, runs, trace, log>>

\* main line 115, initialize_session_state lines 48-51: a session without the
\* key "messages" gets a new list holding SYSTEM_PROMPT
initialize_session_state(s) ==
  /\ pc[s] = "L115"
  /\ IF "messages" \notin DOMAIN session_state[s]
     THEN /\ lists' = Append(lists, <<SYSTEM_PROMPT>>)
          /\ session_state' = [session_state EXCEPT ![s] = WithMessages(Len(lists) + 1)]
     ELSE UNCHANGED <<lists, session_state>>
  /\ pc' = [pc EXCEPT ![s] = "L118"]
  /\ idx' = [idx EXCEPT ![s] = 1]
  /\ before' = [before EXCEPT ![s] = Conv(s)']
  /\ UNCHANGED <<api_key, user_text, assistant_response_text, page,
                 inflight, call_result, ncalls, runs, trace, log>>

\* display_chat_history, with the test of a mutant that hides the assistant
\* instead of the system messages
display_chat_history_wrongrole(s) ==
  /\ pc[s] = "L118"
  /\ IF idx[s] <= Len(Conv(s))
     THEN /\ page' = [page EXCEPT ![s] =
                       IF Conv(s)[idx[s]].role # "assistant"
                       THEN Append(page[s], ChatBubble(Conv(s)[idx[s]].role,
                                                       Conv(s)[idx[s]].content))
                       ELSE page[s]]
          /\ idx' = [idx EXCEPT ![s] = idx[s] + 1]
          /\ pc' = pc
     ELSE /\ pc' = [pc EXCEPT ![s] = "L121"]
          /\ UNCHANGED <<page, idx>>
  /\ UNCHANGED <<session_state, lists, api_key, user_text, assistant_response_text,
                 inflight, call_result, ncalls, runs, before, trace, log>>

\* main line 118, display_chat_history lines 54-58: one iteration of the for
\* loop, or its end
display_chat_history(s) ==
  /\ pc[s] = "L118"
  /\ IF idx[s] <= Len(Conv(s))
     THEN /\ page' = [page EXCEPT ![s] =
                       IF Conv(s)[idx[s]].role # "system"
                       THEN Append(page[s], ChatBubble(Conv(s)[idx[s]].role,
                                                       Conv(s)[idx[s]].content))
                       ELSE page[s]]
          /\ idx' = [idx EXCEPT ![s] = idx[s] + 1]
          /\ pc' = pc
     ELSE /\ pc' = [pc EXCEPT ![s] = "L121"]
          /\ UNCHANGED <<page, idx>>
  /\ UNCHANGED <<session_state, lists, api_key, user_text, assistant_response_text,
                 inflight, call_result, ncalls, runs, before, trace, log>>

LogEntry(t) == [text |-> t, result |-> "pending", reply |-> None]

\* chat_input, with the test of a mutant that asks "is not None"
chat_input_notnone(s) ==
  /\ pc[s] = "L121"
  /\ \E t \in UserInputs :
       /\ user_text' = [user_text EXCEPT ![s] = t]
       /\ IF t # None
          THEN /\ pc' = [pc EXCEPT ![s] = "L125"]
               /\ log' = [log EXCEPT ![s] = Append(log[s], LogEntry(t.val))]
          ELSE /\ pc' = [pc EXCEPT ![s] = "done"]
               /\ log' = log
  /\ UNCHANGED <<session_state, lists, api_key, assistant_response_text, idx, page,
                 inflight, call_result, ncalls, runs, before, trace>>

\* main lines 121-123: st.chat_input returns the submitted text or None, and
\* "if user_text" lets only a non-empty text through
chat_input(s) ==
  /\ pc[s] = "L121"
  /\ \E t \in UserInputs :
       /\ user_text' = [user_text EXCEPT ![s] = t]
       /\ IF Truthy(t)
          THEN /\ pc' = [pc EXCEPT ![s] = "L125"]
               /\ log' = [log EXCEPT ![s] = Append(log[s], LogEntry(t.val))]
          ELSE /\ pc' = [pc EXCEPT ![s] = "done"]
               /\ log' = log
  /\ UNCHANGED <<session_state, lists, api_key, assistant_response_text, idx, page,
                 inflight, call_result, ncalls, runs, before, trace>>

\* main line 125: st.chat_message("user").write(user_text)
render_user(s) ==
  /\ pc[s] = "L125"
  /\ page' = [page EXCEPT ![s] = Append(page[s], ChatBubble("user", user_text[s].val))]
  /\ trace' = [trace EXCEPT ![s] = Append(trace[s], "render_user")]
  /\ pc' = [pc EXCEPT ![s] = "L128"]
  /\ UNCHANGED <<session_state, lists, api_key, user_text, assistant_response_text, idx,
                 inflight, call_result, ncalls, runs, before, log>>

\* list.append on the list st.session_state.messages of session s refers to
ListAppend(s, m) == [lists EXCEPT ![session_state[s]["messages"]] = Append(@, m)]

\* main lines 128-129: st.session_state.messages.append(user_message)
append_user(s) ==
  /\ pc[s] = "L128"
  /\ lists' = ListAppend(s, Message("user", user_text[s].val))
  /\ trace' = [trace EXCEPT ![s] = Append(trace[s], "append_user")]
  /\ pc' = [pc EXCEPT ![s] = "L133"]
  /\ UNCHANGED <<session_state, api_key, user_text, assistant_response_text, idx, page,
                 inflight, call_result, ncalls, runs, before, log>>

\* the n-th request of a session: what client.chat.completions.create is given
Request(n, msgs) == [id |-> n, messages |-> msgs, model |-> DEFAULT_MODEL, max_tokens |-> 1000]

\* the completion call, with the context of a mutant that sends the newest
\* message only
create_completion_lastonly(s) ==
  /\ pc[s] = "L133"
  /\ inflight' = [inflight EXCEPT ![s] = inflight[s] \cup
                    {Request(ncalls[s] + 1, <<Conv(s)[Len(Conv(s))]>>)}]
  /\ ncalls' = [ncalls EXCEPT ![s] = ncalls[s] + 1]
  /\ trace' = [trace EXCEPT ![s] = Append(trace[s], "call")]
  /\ pc' = [pc EXCEPT ![s] = "awaiting"]
  /\ UNCHANGED <<session_state, lists, api_key, user_text, assistant_response_text, idx,
                 page, call_result, runs, before, log>>

\* main lines 132-137, get_ai_response lines 73-79: the request goes out with
\* st.session_state.messages as its messages
create_completion(s) ==
  /\ pc[s] = "L133"
  /\ inflight' = [inflight EXCEPT ![s] = inflight[s] \cup
                    {Request(ncalls[s] + 1, Conv(s))}]
  /\ ncalls' = [ncalls EXCEPT ![s] = ncalls[s] + 1]
  /\ trace' = [trace EXCEPT ![s] = Append(trace[s], "call")]
  /\ pc' = [pc EXCEPT ![s] = "awaiting"]
  /\ UNCHANGED <<session_state, lists, api_key, user_text, assistant_response_text, idx,
                 page, call_result, runs, before, log>>

SetLast(l, res, rep) == [l EXCEPT ![Len(l)] = [@ EXCEPT !.result = res, !.reply = rep]]

\* get_ai_response line 80: the call returns and its message content, a str
\* or None, is the result
return_content(s) ==
  /\ pc[s] = "awaiting"
  /\ \E r \in inflight[s], c \in ReplyContents :
       /\ inflight' = [inflight EXCEPT ![s] = inflight[s] \ {r}]
       /\ assistant_response_text' = [assistant_response_text EXCEPT ![s] = c]
       /\ log' = [log EXCEPT ![s] = SetLast(log[s], "returned", c)]
  /\ call_result' = [call_result EXCEPT ![s] = "returned"]
  /\ pc' = [pc EXCEPT ![s] = "L139"]
  /\ UNCHANGED <<session_state, lists, api_key, user_text, idx, page, ncalls, runs,
                 before, trace>>

\* the OpenAIError arm, as a mutant that sends the request once more before
\* it reports the error
except_OpenAIError_retry(s) ==
  /\ pc[s] = "awaiting"
  /\ \E r \in inflight[s] :
       IF ncalls[s] = Len(log[s])
       THEN /\ inflight' = [inflight EXCEPT ![s] =
                             (inflight[s] \ {r}) \cup {Request(ncalls[s] + 1, Conv(s))}]
            /\ ncalls' = [ncalls EXCEPT ![s] = ncalls[s] + 1]
            /\ UNCHANGED <<page, assistant_response_text, log, call_result, pc, lists>>
       ELSE /\ inflight' = [inflight EXCEPT ![s] = inflight[s] \ {r}]
            /\ page' = [page EXCEPT ![s] = Append(page[s], ErrorBox("OpenAI API Error"))]
            /\ assistant_response_text' = [assistant_response_text EXCEPT ![s] = None]
            /\ log' = [log EXCEPT ![s] = SetLast(log[s], "raised", None)]
            /\ call_result' = [call_result EXCEPT ![s] = "raised"]
            /\ pc' = [pc EXCEPT ![s] = "L139"]
            /\ UNCHANGED <<ncalls, lists>>
  /\ UNCHANGED <<session_state, api_key, user_text, idx, runs, before, trace>>

\* the OpenAIError arm, as a mutant that also stores the error text in the
\* history as if the assistant had said it
except_OpenAIError_stored(s) ==
  /\ pc[s] = "awaiting"
  /\ \E r \in inflight[s] :
       inflight' = [inflight EXCEPT ![s] = inflight[s] \ {r}]
  /\ page' = [page EXCEPT ![s] = Append(page[s], ErrorBox("OpenAI API Error"))]
  /\ lists' = ListAppend(s, Message("assistant", "OpenAI API Error"))
  /\ assistant_response_text' = [assistant_response_text EXCEPT ![s] = None]
  /\ log' = [log EXCEPT ![s] = SetLast(log[s], "raised", None)]
  /\ call_result' = [call_result EXCEPT ![s] = "raised"]
  /\ pc' = [pc EXCEPT ![s] = "L139"]
  /\ UNCHANGED <<session_state, api_key, user_text, idx, ncalls, runs, before, trace>>

\* get_ai_response lines 81-83: the call raises OpenAIError; st.error, return None
except_OpenAIError(s) ==
  /\ pc[s] = "awaiting"
  /\ \E r \in inflight[s] :
       inflight' = [inflight EXCEPT ![s] = inflight[s] \ {r}]
  /\ page' = [page EXCEPT ![s] = Append(page[s], ErrorBox("OpenAI API Error"))]
  /\ assistant_response_text' = [assistant_response_text EXCEPT ![s] = None]
  /\ log' = [log EXCEPT ![s] = SetLast(log[s], "raised", None)]
  /\ call_result' = [call_result EXCEPT ![s] = "raised"]
  /\ pc' = [pc EXCEPT ![s] = "L139"]
  /\ UNCHANGED <<session_state, lists, api_key, user_text, idx, ncalls, runs, before, trace>>

\* get_ai_response lines 84-86: anything else is raised; st.error, return None
except_Exception(s) ==
  /\ pc[s] = "awaiting"
  /\ \E r \in inflight[s] :
       inflight' = [inflight EXCEPT ![s] = inflight[s] \ {r}]
  /\ page' = [page EXCEPT ![s] = Append(page[s], ErrorBox("Unexpected error"))]
  /\ assistant_response_text' = [assistant_response_text EXCEPT ![s] = None]
  /\ log' = [log EXCEPT ![s] = SetLast(log[s], "raised", None)]
  /\ call_result' = [call_result EXCEPT ![s] = "raised"]
  /\ pc' = [pc EXCEPT ![s] = "L139"]
  /\ UNCHANGED <<session_state, lists, api_key, user_text, idx, ncalls, runs, before, trace>>

\* main lines 139-142: "if assistant_response_text" and the append of the
\* assistant message
append_assistant(s) ==
  /\ pc[s] = "L139"
  /\ IF Truthy(assistant_response_text[s])
     THEN /\ lists' = ListAppend(s, Message("assistant", assistant_response_text[s].val))
          /\ trace' = [trace EXCEPT ![s] = Append(trace[s], "append_assistant")]
          /\ pc' = [pc EXCEPT ![s] = "L145"]
     ELSE /\ pc' = [pc EXCEPT ![s] = "done"]
          /\ UNCHANGED <<lists, trace>>
  /\ UNCHANGED <<session_state, api_key, user_text, assistant_response_text, idx, page,
                 inflight, call_result, ncalls, runs, before, log>>

\* main line 145: st.chat_message("assistant").write(assistant_response_text)
render_assistant(s) ==
  /\ pc[s] = "L145"
  /\ page' = [page EXCEPT ![s] =
                Append(page[s], ChatBubble("assistant", assistant_response_text[s].val))]
  /\ trace' = [trace EXCEPT ![s] = Append(trace[s], "render_assistant")]
  /\ pc' = [pc EXCEPT ![s] = "done"]
  /\ UNCHANGED <<session_state, lists, api_key, user_text, assistant_response_text, idx,
                 inflight, call_result, ncalls, runs, before, log>>

Next ==
  \E s \in Sessions :
    \/ Rerun(s)
    \/ main_env(s)
    \/ main_client(s)
    \/ initialize_session_state(s)
    \/ display_chat_history(s)
    \/ chat_input(s)
    \/ render_user(s)
    \/ append_user(s)
    \/ create_completion(s)
    \/ return_content(s)
    \/ except_OpenAIError(s)
    \/ except_Exception(s)
    \/ append_assistant(s)
    \/ render_assistant(s)

Spec == Init /\ [][Next]_vars

(* ---------------- what the properties speak of ---------------- *)

IsPrefix(a, b) == Len(a) <= Len(b) /\ SubSeq(b, 1, Len(a)) = a

IsChat(e) == e.kind = "chat_message"
IsError(e) == e.kind = "error"
\* the chat bubbles and the error boxes of a page, in page order
Bubbles(p) == SelectSeq(p, IsChat)
Errors(p) == SelectSeq(p, IsError)

NotSystem(m) == m.role # "system"
\* the bubbles that show the Turns of c that are not system Turns
Shown(c) == [i \in 1..Len(SelectSeq(c, NotSystem)) |->
               ChatBubble(SelectSeq(c, NotSystem)[i].role, SelectSeq(c, NotSystem)[i].content)]

Range(f) == {f[i] : i \in DOMAIN f}

\* user, assistant, user, assistant, ... for submissions that all got a text back
RECURSIVE Alternating(_)
Alternating(l) ==
  IF l = <<>> THEN <<>>
  ELSE <<Message("user", Head(l).text), Message("assistant", Head(l).reply.val)>>
         \o Alternating(Tail(l))

AllReturnedText(l) ==
  \A i \in 1..Len(l) : l[i].result = "returned" /\ l[i].reply # None

\* the run of session s took a non-empty submission and has ended
InteractionEnded(s) == pc[s] = "done" /\ trace[s] # <<>>

CodeOrder == <<"render_user", "append_user", "call", "append_assistant", "render_assistant">>
SpecOrder == <<"append_user", "render_user", "call", "append_assistant", "render_assistant">>

(* ---------------- C1 ---------------- *)
\* C1: after N non-empty submissions whose completion calls all returned a
\* text, the Conversation is the seed followed by N pairs user, assistant
\* carrying the submitted and the returned texts (length 1 + 2N).
C1_AllSucceedAlternates ==
  \A s \in Sessions :
    (pc[s] = "done" /\ AllReturnedText(log[s]))
      => /\ Conv(s) = <<SYSTEM_PROMPT>> \o Alternating(log[s])
         /\ Len(Conv(s)) = 1 + 2 * Len(log[s])

(* ---------------- C2 ---------------- *)
\* C2: when the completion call of a non-empty submission raises, the
\* Conversation is the one before the run plus exactly the user Turn, an
\* error box is on the page, and the run ends so that the next run can start.
C2_FailedCallAppendsUserTurnOnly ==
  \A s \in Sessions :
    call_result[s] = "raised"
      => /\ pc[s] \in {"L139", "done"}
         /\ Conv(s) = Append(before[s], Message("user", user_text[s].val))
         /\ Errors(page[s]) # <<>>
         /\ Bubbles(page[s]) = Shown(Conv(s))
         /\ (pc[s] = "L139" => ENABLED append_assistant(s))
         /\ (pc[s] = "done" /\ runs < MaxRuns => ENABLED Rerun(s))

C2_Witness ==
  \E s \in Sessions :
    /\ pc[s] = "done"
    /\ call_result[s] = "raised"
    /\ Len(before[s]) >= 3

(* ---------------- C3 ---------------- *)
\* C3: a run without a usable API key, or whose client construction raised,
\* stops with an error box on the page, and in that run the Conversation was
\* not initialized or changed, no Turn was rendered, no input was read and no
\* completion call was issued.
C3_StartupFailureHalts ==
  \A s \in Sessions :
    /\ (pc[s] \notin {"idle", "L101"} /\ ~Truthy(api_key[s])) => pc[s] = "stopped"
    /\ pc[s] = "stopped"
         => /\ Errors(page[s]) # <<>>
            /\ Bubbles(page[s]) = <<>>
            /\ user_text[s] = Unset
            /\ trace[s] = <<>>
            /\ inflight[s] = {}
            /\ call_result[s] = "none"
            /\ Conv(s) = before[s]

C3_Witness ==
  \E s \in Sessions :
    /\ pc[s] = "stopped"
    /\ api_key[s] = None
    /\ session_state[s] = NoKeys

(* ---------------- C4 ---------------- *)
\* C4: when chat_input returns None or the empty string, the step and the
\* rest of the run change neither the Conversation nor the page and issue no
\* completion call: the run just ends.
C4_EmptySubmissionIsNoOp ==
  [][\A s \in Sessions :
       (pc[s] = "L121" /\ user_text'[s] \in {None, Some("")})
         => /\ pc'[s] = "done"
            /\ lists' = lists
            /\ session_state' = session_state
            /\ page' = page
            /\ inflight' = inflight
            /\ ncalls' = ncalls
            /\ log' = log]_vars

C4_Witness ==
  \E s \in Sessions :
    /\ pc[s] = "done"
    /\ user_text[s] = Some("")
    /\ Len(Conv(s)) >= 2

(* ---------------- C5 ---------------- *)
\* C5: every step leaves each session's Conversation as a prefix of what it
\* is after the step, and a Conversation that exists starts with the seed.
C5_AppendOnly ==
  [][\A s \in Sessions :
       /\ IsPrefix(Conv(s), Conv(s)')
       /\ (Conv(s)' # <<>> => Conv(s)'[1] = SYSTEM_PROMPT)]_vars

C5_Witness ==
  \E s \in Sessions :
    /\ Len(Conv(s)) >= 4
    /\ \E i \in 1..Len(log[s]) : log[s][i].result = "raised"

(* ---------------- C6 ---------------- *)
\* C6: when display_chat_history has finished, the page holds exactly the
\* stored Turns that are not system Turns, in stored order, with their role
\* and content, each once.
C6_DisplayShowsNonSystemTurns ==
  \A s \in Sessions :
    pc[s] = "L121" => page[s] = Shown(Conv(s))

C6_Witness ==
  \E s \in Sessions :
    /\ pc[s] = "L121"
    /\ Len(Conv(s)) >= 3

(* ---------------- C7 ---------------- *)
\* C7: a session has at most one completion call outstanding, and only while
\* it awaits it; it has issued exactly one call per non-empty submission; and
\* while it awaits, it takes no submission and appends no Turn.
C7_OneCallPerSubmission ==
  /\ [](\A s \in Sessions :
          /\ Cardinality(inflight[s]) <= 1
          /\ (inflight[s] # {} <=> pc[s] = "awaiting")
          /\ ncalls[s] = IF pc[s] \in {"L125", "L128", "L133"}
                         THEN Len(log[s]) - 1
                         ELSE Len(log[s]))
  /\ [][\A s \in Sessions :
          pc[s] = "awaiting"
            => /\ Conv(s)' = Conv(s)
               /\ Len(log'[s]) = Len(log[s])
               /\ user_text'[s] = user_text[s]
               /\ ncalls'[s] = ncalls[s]]_vars

C7_Witness ==
  \E s \in Sessions :
    /\ pc[s] = "awaiting"
    /\ ncalls[s] = 2

(* ---------------- C8 ---------------- *)
\* C8: a session's Conversation holds the seed and, after it, only user Turns
\* with texts this session submitted and assistant Turns with texts this
\* session's calls returned; and a step of one session leaves the
\* Conversation of every other session as it was.
C8_SessionIsolation ==
  /\ [](\A s \in Sessions :
          "messages" \in DOMAIN session_state[s]
            => /\ Conv(s)[1] = SYSTEM_PROMPT
               /\ Len(Conv(s)) <= 1 + 2 * Len(log[s])
               /\ \A i \in 2..Len(Conv(s)) :
                    \/ /\ Conv(s)[i].role = "user"
                       /\ \E j \in 1..Len(log[s]) : log[s][j].text = Conv(s)[i].content
                    \/ /\ Conv(s)[i].role = "assistant"
                       /\ \E j \in 1..Len(log[s]) : log[s][j].reply = Some(Conv(s)[i].content))
  /\ [][\A s, t \in Sessions :
          (s # t /\ pc'[s] # pc[s]) => Conv(t)' = Conv(t)]_vars

C8_Witness ==
  \E s, t \in Sessions :
    /\ s # t
    /\ Len(Conv(s)) >= 3
    /\ Len(Conv(t)) >= 2
    /\ Conv(s)[2] # Conv(t)[2]

(* ---------------- C9 ---------------- *)
\* C9, as the spec states it: in an interaction the user Turn is appended,
\* then rendered, then the call is issued, then the assistant Turn is
\* appended and rendered; the user Turn is in the Conversation when it is
\* rendered.
C9_AppendBeforeRender ==
  \A s \in Sessions :
    /\ IsPrefix(trace[s], SpecOrder)
    /\ ("render_user" \in Range(trace[s]) => Len(Conv(s)) > Len(before[s]))

\* C9, as the code has it: the user Turn is rendered, then appended, then
\* the call is issued with the whole Conversation (seed first, the new user
\* Turn last), and an assistant Turn is appended, then rendered, only after
\* the call returned.
C9_RenderThenAppendThenCall ==
  \A s \in Sessions :
    /\ IsPrefix(trace[s], CodeOrder)
    /\ \A r \in inflight[s] :
         /\ r.messages = Conv(s)
         /\ r.messages = Append(before[s], Message("user", user_text[s].val))
         /\ r.messages[1] = SYSTEM_PROMPT
    /\ ("append_assistant" \in Range(trace[s]) => call_result[s] = "returned")

C9_Witness ==
  \E s \in Sessions :
    /\ pc[s] = "done"
    /\ trace[s] = CodeOrder
    /\ Len(before[s]) >= 2

(* ---------------- C10 ---------------- *)
\* C10: an interaction whose call returned a text (the empty text included)
\* ends with exactly one assistant Turn of that text appended and rendered,
\* and one whose call raised ends with an error box; it never ends with
\* neither.
C10_TextOrError ==
  \A s \in Sessions :
    (InteractionEnded(s) /\ (call_result[s] = "raised" \/ log[s][Len(log[s])].reply # None))
      => \/ /\ call_result[s] = "returned"
            /\ Conv(s) = before[s] \o
                 <<Message("user", user_text[s].val),
                   Message("assistant", log[s][Len(log[s])].reply.val)>>
            /\ Bubbles(page[s])[Len(Bubbles(page[s]))] =
                 ChatBubble("assistant", log[s][Len(log[s])].reply.val)
         \/ /\ call_result[s] = "raised"
            /\ Errors(page[s]) # <<>>

====
